---- MODULE Spec2Model ----
(***************************************************************************)
(* FrameIt server: the Image store, the Like store and the request         *)
(* handlers of server/src/routes/images.js (upload, like toggle, delete,   *)
(* collection view).  Every handler is cut at its awaits: one action per   *)
(* storage step, so that handlers of different requests interleave there.  *)
(***************************************************************************)
EXTENDS Integers, Sequences, FiniteSets

\* ---- bounds of the model
NumUsers == 2
MaxImages == 2
MaxReq == 2
MaxOps == 5
MaxPage == 2
MaxTime == 2
MaxLimit == 2
MaxAiReq == 3
MaxChecks == 2
MaxFetches == 2
MaxCalls == 2
MaxLikes == 1
MaxPicked == 2
MaxTokens == 3
MaxFlights == 2

Users == 1..NumUsers
ImageIds == 1..MaxImages
Req == 1..MaxReq
Pages == 1..MaxPage
Limits == 1..MaxLimit
AiReq == 1..MaxAiReq

VARIABLES
    images,   \* Image collection, in insertion order
    likes,    \* Like collection, in insertion order
    files,    \* file names present in the upload directory
    now,      \* Date.now()
    nextId,   \* number of file names / image ids handed out
    nOps,     \* number of mutating requests started
    req,      \* the request handled in each slot: locals, position, response
    run,      \* history: the current run of back-to-back toggles of one (user, image)
    view      \* the response of a collection read, until the next step

VARIABLES
    ai,       \* POST /ai/describe-image: the Gemini client, the calls, the temp files
    signup,   \* the Signup page: its state, the checks in flight, what was sent
    coll,     \* the Collections page and its useImages hook, the requests in flight
    modal,    \* the upload modal: its form, the requests in flight
    api       \* the axios instance: local storage, the requests in flight

server == <<images, likes, files, now, nextId, nOps, req, run, view>>
client == <<ai, signup, coll, modal, api>>
notAi == <<server, signup, coll, modal, api>>
notSignup == <<server, ai, coll, modal, api>>
notPage == <<server, ai, signup, modal, api>>
notModal == <<server, ai, signup, coll, api>>
notApi == <<server, ai, signup, coll, modal>>
vars == <<server, client>>
store == <<images, likes, files, now, nextId>>

\* ---- helpers
Max(a, b) == IF a >= b THEN a ELSE b
Min(a, b) == IF a <= b THEN a ELSE b

\* ObjectId.prototype.toString(): the hex string of the id, a value of another type
ToString(id) == [str |-> id]

\* an ObjectId as the driver hands it out: an object, not its hex string
ObjectId(id) == [oid |-> id]

\* Array.prototype.includes(x): some element is the same value as x
Includes(arr, x) == \E k \in 1..Len(arr) : arr[k] = x

\* ---- the stores
NoDoc == [id |-> 0]

\* Image.findById(imageId)
FindImageById(imageId) ==
    IF \E k \in 1..Len(images) : images[k].id = imageId
    THEN images[CHOOSE k \in 1..Len(images) : images[k].id = imageId]
    ELSE NoDoc

\* Like.findOne({ userId, imageId })
FindLike(userId, imageId) ==
    IF \E k \in 1..Len(likes) : likes[k].userId = userId /\ likes[k].imageId = imageId
    THEN likes[CHOOSE k \in 1..Len(likes) :
                   /\ likes[k].userId = userId /\ likes[k].imageId = imageId
                   /\ \A j \in 1..(k-1) :
                        ~(likes[j].userId = userId /\ likes[j].imageId = imageId)]
    ELSE NoDoc

\* the number of Like records referencing an image
LikeCount(imageId) == Cardinality({k \in 1..Len(likes) : likes[k].imageId = imageId})

\* the number of Like records of one (user, image) pair
PairCount(userId, imageId) ==
    Cardinality({k \in 1..Len(likes) :
                    likes[k].userId = userId /\ likes[k].imageId = imageId})

\* the counter set on every stored image
SetLikesCountOfAll(imageId, n) ==
    [k \in 1..Len(images) |-> [images[k] EXCEPT !.likesCount = n]]

\* image.save() of a loaded document: $set of the changed likesCount on the
\* stored document with that _id (no upsert)
SetLikesCount(imageId, n) ==
    [k \in 1..Len(images) |->
        IF images[k].id = imageId THEN [images[k] EXCEPT !.likesCount = n]
        ELSE images[k]]

\* ---- requests
\* history of a toggle that started with no other request in flight: what the
\* stores held for its (user, image) when it started
NoPre == [exists |-> FALSE, liked |-> FALSE, lc |-> 0]
PreOf(u, i) ==
    IF FindImageById(i) = NoDoc THEN NoPre
    ELSE [exists |-> TRUE, liked |-> FindLike(u, i) # NoDoc,
          lc |-> FindImageById(i).likesCount]

IdleReq ==
    [kind |-> "none", pc |-> "idle", user |-> 0, imageId |-> 0,
     at |-> 0, lc0 |-> 0, lc |-> 0, existing |-> 0,
     status |-> 0, isLiked |-> FALSE, solo |-> FALSE, pre |-> NoPre]

NoRun == [user |-> 0, imageId |-> 0, odd |-> FALSE, any |-> FALSE, base |-> 0, last |-> FALSE]
NoView == [kind |-> "none"]

InFlight(r) == req[r].pc \notin {"idle", "done"}
Busy == \E r \in Req : InFlight(r)
\* a new request takes the first slot that handles none
Free(r) == ~InFlight(r) /\ \A q \in 1..(r-1) : InFlight(q)

\* a request that starts ends the isolation of those in flight; the responses
\* already sent are forgotten
Unsolo(q) == IF q.pc = "done" THEN IdleReq ELSE [q EXCEPT !.solo = FALSE, !.pre = NoPre]
Begin(r, rec) == [q \in Req |-> IF q = r THEN rec ELSE Unsolo(req[q])]

\* the handler of slot r answers: its locals go, the response stays
Respond(r, code, liked) ==
    [req EXCEPT ![r].pc = "done", ![r].status = code, ![r].isLiked = liked,
                ![r].existing = 0, ![r].at = 0]

\* ---- POST /upload
\* body('description').optional().trim().isLength({ max: 500 }), on the length
\* of the trimmed text; body('isPublic').optional().isBoolean()
MaxDescription == 500
DescriptionLengths == {0, MaxDescription, MaxDescription + 1}
IsPublicValues == {"absent", "true", "false", "1", "0", "yes"}
IsBoolean(value) == value \in {"true", "false", "1", "0"}
ValidationPasses(length, isPublic) ==
    /\ length <= MaxDescription
    /\ isPublic = "absent" \/ IsBoolean(isPublic)

\* the file left where multer wrote it
UnlinkForgotten(stored, filename) == stored

\* fs.unlink(path.join(uploadDir, req.file.filename), () => {})
Unlink(stored, filename) == stored \ {filename}

\* multer stores the file, then the handler validates and builds the document
UploadStart(r, u, hasFile, valid) ==
    /\ Free(r)
    /\ nOps < MaxOps
    /\ nOps' = nOps + 1
    /\ view' = NoView
    /\ nextId < MaxImages
    /\ run' = NoRun
    /\ IF ~hasFile
       THEN /\ req' = Begin(r, [IdleReq EXCEPT !.kind = "upload", !.pc = "done",
                                    !.user = u, !.status = 400, !.solo = ~Busy])
            /\ UNCHANGED <<files, now, nextId>>
       ELSE IF ~valid
       THEN /\ req' = Begin(r, [IdleReq EXCEPT !.kind = "upload", !.pc = "done",
                                    !.user = u, !.status = 400, !.solo = ~Busy])
            /\ files' = Unlink(files \cup {nextId + 1}, nextId + 1)
            /\ UNCHANGED <<now, nextId>>
       ELSE /\ req' = Begin(r, [IdleReq EXCEPT !.kind = "upload", !.pc = "saveImage",
                                    !.user = u, !.imageId = nextId + 1, !.at = now,
                                    !.solo = ~Busy])
            /\ nextId' = nextId + 1
            /\ files' = files \cup {nextId + 1}
            /\ now' = now
    /\ UNCHANGED <<images, likes>>
    /\ UNCHANGED client

\* await image.save(): the new document, likesCount at its default
UploadSave(r) ==
    /\ req[r].kind = "upload" /\ req[r].pc = "saveImage"
    /\ images' = Append(images, [id |-> req[r].imageId, uploadedBy |-> req[r].user,
                                 likesCount |-> 0, createdAt |-> req[r].at])
    /\ req' = Respond(r, 201, FALSE)
    /\ view' = NoView
    /\ UNCHANGED <<likes, files, now, nextId, run, nOps>>
    /\ UNCHANGED client

\* image.save() throws: the catch block unlinks the file and answers 500
UploadSaveFails(r) ==
    /\ req[r].kind = "upload" /\ req[r].pc = "saveImage"
    /\ files' = Unlink(files, req[r].imageId)
    /\ req' = Respond(r, 500, FALSE)
    /\ view' = NoView
    /\ UNCHANGED <<images, likes, now, nextId, run, nOps>>
    /\ UNCHANGED client

\* ---- POST /:imageId/like
RunAtStart(u, i) ==
    IF Busy THEN NoRun
    ELSE IF run.user = u /\ run.imageId = i THEN run
    ELSE IF FindImageById(i) # NoDoc /\ FindLike(u, i) = NoDoc
    THEN [user |-> u, imageId |-> i, odd |-> FALSE, any |-> FALSE,
          base |-> FindImageById(i).likesCount, last |-> FALSE]
    ELSE NoRun

RunAtEnd(r, ok, liked) ==
    IF ok /\ run.user = req[r].user /\ run.imageId = req[r].imageId
    THEN [run EXCEPT !.odd = ~@, !.any = TRUE, !.last = liked]
    ELSE NoRun

ToggleStart(r, u, i) ==
    /\ Free(r)
    /\ nOps < MaxOps
    /\ nOps' = nOps + 1
    /\ view' = NoView
    /\ run' = RunAtStart(u, i)
    /\ req' = Begin(r, [IdleReq EXCEPT !.kind = "toggle", !.pc = "findImage",
                            !.user = u, !.imageId = i, !.solo = ~Busy,
                            !.pre = IF Busy THEN NoPre ELSE PreOf(u, i)])
    /\ UNCHANGED store
    /\ UNCHANGED client

\* the handler without its "if (!image)" return
ToggleFindImageUnchecked(r) ==
    /\ req[r].kind = "toggle" /\ req[r].pc = "findImage"
    /\ LET image == FindImageById(req[r].imageId)
           count == IF image = NoDoc THEN 0 ELSE image.likesCount IN
       req' = [req EXCEPT ![r].pc = "findLike", ![r].lc0 = count, ![r].lc = count]
    /\ view' = NoView
    /\ UNCHANGED <<store, nOps, run>>
    /\ UNCHANGED client

\* const image = await Image.findById(imageId); if (!image) return 404
ToggleFindImage(r) ==
    /\ req[r].kind = "toggle" /\ req[r].pc = "findImage"
    /\ LET image == FindImageById(req[r].imageId) IN
       IF image = NoDoc
       THEN /\ req' = Respond(r, 404, FALSE)
            /\ run' = RunAtEnd(r, FALSE, FALSE)
       ELSE /\ req' = [req EXCEPT ![r].pc = "findLike",
                                  ![r].lc0 = image.likesCount,
                                  ![r].lc = image.likesCount]
            /\ run' = run
    /\ view' = NoView
    /\ UNCHANGED <<store, nOps>>
    /\ UNCHANGED client

\* const existingLike = await Like.findOne({ userId, imageId })
ToggleFindLike(r) ==
    /\ req[r].kind = "toggle" /\ req[r].pc = "findLike"
    /\ LET existingLike == FindLike(req[r].user, req[r].imageId) IN
       req' = [req EXCEPT ![r].existing = existingLike.id,
                          ![r].pc = IF existingLike # NoDoc THEN "deleteLike"
                                    ELSE "saveLike"]
    /\ view' = NoView
    /\ UNCHANGED <<store, run, nOps>>
    /\ UNCHANGED client

\* the decrement without its floor
DecrementUnfloored(n) == n - 1

\* the unlike path leaving the counter alone
DecrementForgotten(n) == n

\* await Like.deleteOne({ _id: existingLike._id });
\* image.likesCount = Math.max(0, image.likesCount - 1)
Decrement(n) == Max(0, n - 1)

ToggleDeleteLike(r) ==
    /\ req[r].kind = "toggle" /\ req[r].pc = "deleteLike"
    /\ likes' = SelectSeq(likes, LAMBDA l : l.id # req[r].existing)
    /\ req' = [req EXCEPT ![r].pc = "saveImage", ![r].lc = Decrement(req[r].lc)]
    /\ view' = NoView
    /\ UNCHANGED <<images, files, now, nextId, run, nOps>>
    /\ UNCHANGED client

\* the _id of a new Like: one that no stored Like has and no handler holds
NewLikeId ==
    CHOOSE n \in 1..(Len(likes) + MaxReq + 1) :
        /\ \A k \in 1..Len(likes) : likes[k].id # n
        /\ \A q \in Req : req[q].existing # n
        /\ \A m \in 1..(n-1) :
              \/ \E k \in 1..Len(likes) : likes[k].id = m
              \/ \E q \in Req : req[q].existing = m

\* the Like collection without its unique index
NoUniqueIndex(userId, imageId) == TRUE

\* likeSchema.index({ userId: 1, imageId: 1 }, { unique: true })
UniqueIndexAllows(userId, imageId) == FindLike(userId, imageId) = NoDoc

\* await like.save(); image.likesCount += 1
\* a duplicate key makes save() throw: the catch block answers 500
ToggleSaveLike(r) ==
    /\ req[r].kind = "toggle" /\ req[r].pc = "saveLike"
    /\ IF UniqueIndexAllows(req[r].user, req[r].imageId)
       THEN /\ likes' = Append(likes, [id |-> NewLikeId, userId |-> req[r].user,
                                       imageId |-> req[r].imageId, createdAt |-> now])
            /\ req' = [req EXCEPT ![r].pc = "saveImage", ![r].lc = req[r].lc + 1]
            /\ run' = run
       ELSE /\ req' = Respond(r, 500, FALSE)
            /\ run' = RunAtEnd(r, FALSE, FALSE)
            /\ likes' = likes
    /\ view' = NoView
    /\ UNCHANGED <<images, files, now, nextId, nOps>>
    /\ UNCHANGED client

\* the response sent without the counter being saved
ToggleSaveImageUnsaved(r) ==
    /\ req[r].kind = "toggle" /\ req[r].pc = "saveImage"
    /\ req' = Respond(r, 200, req[r].existing = 0)
    /\ run' = RunAtEnd(r, TRUE, req[r].existing = 0)
    /\ view' = NoView
    /\ UNCHANGED <<store, nOps>>
    /\ UNCHANGED client

\* await image.save(); res.status(200).json({ isLiked, likesCount })
\* save() sends the modified path only, and fails when the document is gone
ToggleSaveImage(r) ==
    /\ req[r].kind = "toggle" /\ req[r].pc = "saveImage"
    /\ IF FindImageById(req[r].imageId) = NoDoc
       THEN /\ req' = Respond(r, 500, FALSE)
            /\ run' = RunAtEnd(r, FALSE, FALSE)
            /\ images' = images
       ELSE /\ images' = IF req[r].lc # req[r].lc0
                         THEN SetLikesCount(req[r].imageId, req[r].lc)
                         ELSE images
            /\ req' = Respond(r, 200, req[r].existing = 0)
            /\ run' = RunAtEnd(r, TRUE, req[r].existing = 0)
    /\ view' = NoView
    /\ UNCHANGED <<likes, files, now, nextId, nOps>>
    /\ UNCHANGED client

\* the error of the Like write swallowed: the handler goes on to the counter
ToggleLikeWriteFailsSwallowed(r) ==
    /\ req[r].kind = "toggle" /\ req[r].pc \in {"deleteLike", "saveLike"}
    /\ req' = [req EXCEPT ![r].pc = "saveImage",
                          ![r].lc = IF req[r].pc = "saveLike" THEN req[r].lc + 1
                                    ELSE Decrement(req[r].lc)]
    /\ view' = NoView
    /\ UNCHANGED <<store, run, nOps>>
    /\ UNCHANGED client

\* Like.deleteOne or like.save() throws: control leaves the try block, the
\* catch block answers 500
ToggleLikeWriteFails(r) ==
    /\ req[r].kind = "toggle" /\ req[r].pc \in {"deleteLike", "saveLike"}
    /\ req' = Respond(r, 500, FALSE)
    /\ run' = RunAtEnd(r, FALSE, FALSE)
    /\ view' = NoView
    /\ UNCHANGED <<store, nOps>>
    /\ UNCHANGED client

\* image.save() throws after the Like write: the catch block answers 500
ToggleSaveImageFails(r) ==
    /\ req[r].kind = "toggle" /\ req[r].pc = "saveImage"
    /\ req' = Respond(r, 500, FALSE)
    /\ run' = RunAtEnd(r, FALSE, FALSE)
    /\ view' = NoView
    /\ UNCHANGED <<store, nOps>>
    /\ UNCHANGED client

\* ---- DELETE /:imageId
DeleteStart(r, u, i) ==
    /\ Free(r)
    /\ nOps < MaxOps
    /\ nOps' = nOps + 1
    /\ view' = NoView
    /\ run' = NoRun
    /\ req' = Begin(r, [IdleReq EXCEPT !.kind = "delete", !.pc = "findImage",
                            !.user = u, !.imageId = i, !.solo = ~Busy])
    /\ UNCHANGED store
    /\ UNCHANGED client

\* the uploader not compared with the requester
DeleteFindImageUnchecked(r) ==
    /\ req[r].kind = "delete" /\ req[r].pc = "findImage"
    /\ req' = IF FindImageById(req[r].imageId) = NoDoc
              THEN Respond(r, 404, FALSE)
              ELSE [req EXCEPT ![r].pc = "deleteLikes"]
    /\ view' = NoView
    /\ UNCHANGED <<store, run, nOps>>
    /\ UNCHANGED client

\* findById: 404 when absent, 403 when the requester is not the uploader
DeleteFindImage(r) ==
    /\ req[r].kind = "delete" /\ req[r].pc = "findImage"
    /\ LET image == FindImageById(req[r].imageId) IN
       req' = IF image = NoDoc
              THEN Respond(r, 404, FALSE)
              ELSE IF ToString(image.uploadedBy) # ToString(req[r].user)
              THEN Respond(r, 403, FALSE)
              ELSE [req EXCEPT ![r].pc = "deleteLikes"]
    /\ view' = NoView
    /\ UNCHANGED <<store, run, nOps>>
    /\ UNCHANGED client

\* await Like.deleteMany({ imageId })
DeleteLikes(r) ==
    /\ req[r].kind = "delete" /\ req[r].pc = "deleteLikes"
    /\ likes' = SelectSeq(likes, LAMBDA l : l.imageId # req[r].imageId)
    /\ req' = [req EXCEPT ![r].pc = "deleteImage"]
    /\ view' = NoView
    /\ UNCHANGED <<images, files, now, nextId, run, nOps>>
    /\ UNCHANGED client

\* await Image.deleteOne({ _id: imageId }); unlink of the stored file; 200
DeleteImage(r) ==
    /\ req[r].kind = "delete" /\ req[r].pc = "deleteImage"
    /\ images' = SelectSeq(images, LAMBDA img : img.id # req[r].imageId)
    /\ files' = files \ {req[r].imageId}
    /\ req' = Respond(r, 200, FALSE)
    /\ view' = NoView
    /\ UNCHANGED <<likes, now, nextId, run, nOps>>
    /\ UNCHANGED client

\* ---- GET /collection
\* Image.find({ uploadedBy: req.user._id }).lean()
UserUploads(u) == SelectSeq(images, LAMBDA img : img.uploadedBy = u)

\* Like.find({ userId: req.user._id }).distinct('imageId')
RECURSIVE Distinct(_)
Distinct(s) ==
    IF s = <<>> THEN <<>>
    ELSE LET rest == Distinct(SelectSeq(Tail(s), LAMBDA x : x # Head(s)))
         IN  <<Head(s)>> \o rest

LikedImages(u) ==
    LET mine == SelectSeq(likes, LAMBDA l : l.userId = u)
    IN  Distinct([k \in 1..Len(mine) |-> mine[k].imageId])

\* Image.find({ _id: { $in: likedImages } }).lean()
LikedImageDocs(u) ==
    SelectSeq(images, LAMBDA img : \E k \in 1..Len(LikedImages(u)) :
                                       LikedImages(u)[k] = img.id)

\* new Map(allImages.map(img => [img._id.toString(), img])): a key keeps the
\* place of its first entry and the value of its last
RECURSIVE MapOf(_, _)
MapOf(entries, m) ==
    IF entries = <<>> THEN m
    ELSE LET e == Head(entries) IN
         IF \E j \in 1..Len(m) : m[j][1] = e[1]
         THEN MapOf(Tail(entries),
                    [j \in 1..Len(m) |-> IF m[j][1] = e[1] THEN e ELSE m[j]])
         ELSE MapOf(Tail(entries), Append(m, e))

\* the concatenation taken as it is, the Map left out
NotDeduplicated(allImages) == allImages

\* Array.from(new Map(...).values())
UniqueImages(allImages) ==
    LET m == MapOf([k \in 1..Len(allImages) |->
                       <<ToString(allImages[k].id), allImages[k]>>], <<>>)
    IN  [j \in 1..Len(m) |-> m[j][2]]

\* uniqueImages.sort((a, b) => new Date(b.createdAt) - new Date(a.createdAt)):
\* a stable sort, newest first
RECURSIVE InsertSorted(_, _)
InsertSorted(sorted, img) ==
    IF sorted = <<>> THEN <<img>>
    ELSE IF Head(sorted).createdAt >= img.createdAt
    THEN <<Head(sorted)>> \o InsertSorted(Tail(sorted), img)
    ELSE <<img>> \o sorted

\* the list left in the order the queries gave
NotSorted(s) == s

RECURSIVE SortByCreatedAtDesc(_)
SortByCreatedAtDesc(s) ==
    IF s = <<>> THEN <<>>
    ELSE InsertSorted(SortByCreatedAtDesc(SubSeq(s, 1, Len(s) - 1)), s[Len(s)])

\* Array.prototype.slice(start, end) for 0 <= start <= end
Slice(s, start, end) == SubSeq(s, start + 1, Min(end, Len(s)))

\* the slice taken one item too long
PaginatedOneMore(uniqueImages, page, limit) ==
    Slice(uniqueImages, (page - 1) * limit, (page - 1) * limit + limit + 1)

\* const skip = (page - 1) * limit; uniqueImages.slice(skip, skip + limit)
PaginatedImages(uniqueImages, page, limit) ==
    Slice(uniqueImages, (page - 1) * limit, (page - 1) * limit + limit)

\* the quotient rounded down and one added
CeilOneMore(total, limit) == total \div limit + 1

\* Math.ceil(total / limit)
Ceil(total, limit) == (total + limit - 1) \div limit

\* the sorted, deduplicated list the pages are cut from
SortedCollection(u) ==
    SortByCreatedAtDesc(UniqueImages(UserUploads(u) \o LikedImageDocs(u)))

\* the ids compared as they come, an ObjectId against a string
WithLikeStatusUnconverted(imgs, likedImages) ==
    [k \in 1..Len(imgs) |->
        [id |-> imgs[k].id, uploadedBy |-> imgs[k].uploadedBy,
         likesCount |-> imgs[k].likesCount, createdAt |-> imgs[k].createdAt,
         isLiked |-> Includes([j \in 1..Len(likedImages) |-> ObjectId(likedImages[j])],
                              ToString(imgs[k].id))]]

\* isLiked: likedImages.some(id => id.toString() === img._id.toString())
WithLikeStatus(imgs, likedImages) ==
    [k \in 1..Len(imgs) |->
        [id |-> imgs[k].id, uploadedBy |-> imgs[k].uploadedBy,
         likesCount |-> imgs[k].likesCount, createdAt |-> imgs[k].createdAt,
         isLiked |-> \E j \in 1..Len(likedImages) :
                        ToString(likedImages[j]) = ToString(imgs[k].id)]]

CollectionResponse(u, page, limit) ==
    LET uniqueImages == SortedCollection(u) IN
    [kind |-> "collection", success |-> TRUE, user |-> u, page |-> page, limit |-> limit,
     images |-> WithLikeStatus(PaginatedImages(uniqueImages, page, limit),
                               LikedImages(u)),
     total |-> Len(uniqueImages),
     pages |-> Ceil(Len(uniqueImages), limit)]

\* a read is answered before the next one is served
GetCollection(u, page, limit) ==
    /\ view = NoView
    /\ view' = CollectionResponse(u, page, limit)
    /\ UNCHANGED <<store, nOps, req, run>>
    /\ UNCHANGED client

\* the image ids a response shows
Shown(response) == {response.images[k].id : k \in 1..Len(response.images)}

\* ---- GET /user
\* Like.find({ userId }).distinct('imageId'): ObjectIds
LikedImageIds(u) == [k \in 1..Len(LikedImages(u)) |-> ObjectId(LikedImages(u)[k])]

\* isLiked: likedImageIds.includes(img._id.toString())
WithIncludesStatus(imgs, likedImageIds) ==
    [k \in 1..Len(imgs) |->
        [id |-> imgs[k].id, uploadedBy |-> imgs[k].uploadedBy,
         likesCount |-> imgs[k].likesCount, createdAt |-> imgs[k].createdAt,
         isLiked |-> Includes(likedImageIds, ToString(imgs[k].id))]]

\* .skip(skip).limit(limit) of a sorted cursor
SkipLimit(sorted, page, limit) ==
    Slice(sorted, (page - 1) * limit, (page - 1) * limit + limit)

UploadsResponse(u, page, limit) ==
    LET sorted == SortByCreatedAtDesc(UserUploads(u)) IN
    [kind |-> "uploads", success |-> TRUE, user |-> u, page |-> page, limit |-> limit,
     images |-> WithIncludesStatus(SkipLimit(sorted, page, limit), LikedImageIds(u)),
     total |-> Len(UserUploads(u)),
     pages |-> Ceil(Len(UserUploads(u)), limit)]

GetUploads(u, page, limit) ==
    /\ view = NoView
    /\ view' = UploadsResponse(u, page, limit)
    /\ UNCHANGED <<store, nOps, req, run>>
    /\ UNCHANGED client

\* ---- GET /liked
\* the Like records in the order they were stored
UserLikesUnsorted(u) == SelectSeq(likes, LAMBDA l : l.userId = u)

\* Like.find({ userId }).sort({ createdAt: -1 })
UserLikes(u) == SortByCreatedAtDesc(SelectSeq(likes, LAMBDA l : l.userId = u))

\* imageIds.map(id => imageMap[id.toString()]).filter(img => img !== undefined)
RECURSIVE OrderedImages(_)
OrderedImages(imageIds) ==
    IF imageIds = <<>> THEN <<>>
    ELSE LET img == FindImageById(Head(imageIds)) IN
         (IF img = NoDoc THEN <<>> ELSE <<img>>) \o OrderedImages(Tail(imageIds))

\* isLiked: true
WithLikedTrue(imgs) ==
    [k \in 1..Len(imgs) |->
        [id |-> imgs[k].id, uploadedBy |-> imgs[k].uploadedBy,
         likesCount |-> imgs[k].likesCount, createdAt |-> imgs[k].createdAt,
         isLiked |-> TRUE]]

LikedResponse(u, page, limit) ==
    LET pageLikes == SkipLimit(UserLikes(u), page, limit)
        imageIds == [k \in 1..Len(pageLikes) |-> pageLikes[k].imageId] IN
    [kind |-> "liked", success |-> TRUE, user |-> u, page |-> page, limit |-> limit,
     images |-> WithLikedTrue(OrderedImages(imageIds)),
     total |-> Len(UserLikes(u)),
     pages |-> Ceil(Len(UserLikes(u)), limit)]

\* a read that drops the Likes it answers with
GetLikedConsuming(u, page, limit) ==
    /\ view = NoView
    /\ view' = LikedResponse(u, page, limit)
    /\ likes' = SelectSeq(likes, LAMBDA l :
                    l.userId # u \/ l.imageId \notin Shown(LikedResponse(u, page, limit)))
    /\ UNCHANGED <<images, files, now, nextId, nOps, req, run>>
    /\ UNCHANGED client

GetLiked(u, page, limit) ==
    /\ view = NoView
    /\ view' = LikedResponse(u, page, limit)
    /\ UNCHANGED <<store, nOps, req, run>>
    /\ UNCHANGED client

\* ---- GET /stats
\* images.reduce((sum, img) => sum + (img.likesCount || 0), 0)
RECURSIVE TotalLikes(_)
TotalLikes(imgs) ==
    IF imgs = <<>> THEN 0 ELSE Head(imgs).likesCount + TotalLikes(Tail(imgs))

\* the counters of every image summed, the uploader not looked at
StatsOfAllImages(u) ==
    [kind |-> "stats", success |-> TRUE, user |-> u, totalLikes |-> TotalLikes(images)]

StatsResponse(u) ==
    [kind |-> "stats", success |-> TRUE, user |-> u, totalLikes |-> TotalLikes(UserUploads(u))]

GetStats(u) ==
    /\ view = NoView
    /\ view' = StatsResponse(u)
    /\ UNCHANGED <<store, nOps, req, run>>
    /\ UNCHANGED client

\* ---- POST /ai/describe-image
IdleCall == [pc |-> "idle", hasFile |-> FALSE, status |-> 0]

\* upload.single('image') has run and the handler is entered
DescribeStart(a, hasFile) ==
    /\ ai.calls[a].pc \in {"idle", "done"}
    /\ ai' = [ai EXCEPT !.calls[a] = [pc |-> "entered", hasFile |-> hasFile, status |-> 0],
                        !.tmp = IF hasFile THEN @ \cup {a} ELSE @]
    /\ UNCHANGED notAi

\* the handler up to its await: 400 without a file; without a configured
\* client generateImageDescriptionFromBuffer throws, the catch block answers
\* 500 and the finally block unlinks the temp file
DescribeCall(a) ==
    /\ ai.calls[a].pc = "entered"
    /\ ai' = IF ~ai.calls[a].hasFile
             THEN [ai EXCEPT !.calls[a].pc = "done", !.calls[a].status = 400]
             ELSE IF ~ai.client
             THEN [ai EXCEPT !.calls[a].pc = "done", !.calls[a].status = 500,
                             !.tmp = @ \ {a}]
             ELSE [ai EXCEPT !.calls[a].pc = "generating"]
    /\ UNCHANGED notAi

\* model.generateContent(...) settles: a text is answered with 200; no text,
\* or a rejection, is rethrown and answered with 500; finally unlinks
GeminiResults == {"text", "empty", "rejected"}
GeminiAnswers(a, result) ==
    /\ ai.calls[a].pc = "generating"
    /\ ai' = [ai EXCEPT !.calls[a].pc = "done",
                        !.calls[a].status = IF result = "text" THEN 200 ELSE 500,
                        !.tmp = @ \ {a}]
    /\ UNCHANGED notAi

\* ---- the Signup page
\* user names as the characters typed
Usernames ==
    {<<>>, <<" ">>, <<"a", "l">>, <<"a", "n", "n">>, <<"b", "o", "b">>, <<"a", "-", "b">>}
NoName == <<"?">>

\* the names User.findOne({ username }) finds
RegisteredUsers == {<<"b", "o", "b">>}

\* String.prototype.trim()
RECURSIVE TrimStart(_)
TrimStart(name) ==
    IF name # <<>> /\ Head(name) = " " THEN TrimStart(Tail(name)) ELSE name

RECURSIVE TrimEnd(_)
TrimEnd(name) ==
    IF name # <<>> /\ name[Len(name)] = " "
    THEN TrimEnd(SubSeq(name, 1, Len(name) - 1)) ELSE name

Trim(name) == TrimEnd(TrimStart(name))

\* /^[a-zA-Z0-9_]+$/.test(username), over the characters in use
WordCharacters == {"a", "b", "l", "n", "o", "_"}
WellFormed(name) == name # <<>> /\ \A k \in 1..Len(name) : name[k] \in WordCharacters

\* the first complaint of checkUsername, "" when it has none
UsernameComplaint(name) ==
    IF Trim(name) = <<>> THEN "Please enter a username"
    ELSE IF Len(name) < 3 THEN "Username must be at least 3 characters long"
    ELSE IF ~WellFormed(name)
    THEN "Username can only contain letters, numbers, and underscores"
    ELSE ""

\* the email and password fields, by what handleSubmit tests of them
Emails == {"blank", "malformed", "wellformed"}
PasswordLengths == {0, 5, 6}
FieldsComplaint(email, passwordLength) ==
    IF email = "blank" \/ passwordLength = 0 THEN "Please fill in all fields"
    ELSE IF email = "malformed" THEN "Please enter a valid email address"
    ELSE IF passwordLength < 6 THEN "Password must be at least 6 characters long"
    ELSE ""

InitialSignup ==
    [username |-> <<>>, usernameStatus |-> "unchecked", error |-> "",
     loading |-> FALSE, checks |-> {}, reported |-> NoName, sent |-> NoName,
     left |-> FALSE]

\* the input is enabled unless loading
HandleUsernameChange(value) ==
    /\ ~signup.left /\ ~signup.loading
    /\ value # signup.username
    /\ signup' = [signup EXCEPT !.username = value, !.usernameStatus = "unchecked",
                                !.error = ""]
    /\ UNCHANGED notSignup

\* the Check button is enabled unless loading, checking or the name is blank;
\* the request carries the username of this render
CheckUsername ==
    /\ ~signup.left /\ ~signup.loading
    /\ signup.usernameStatus # "checking"
    /\ Trim(signup.username) # <<>>
    /\ Cardinality(signup.checks) < MaxChecks
    /\ signup' = IF UsernameComplaint(signup.username) # ""
                 THEN [signup EXCEPT !.error = UsernameComplaint(signup.username)]
                 ELSE [signup EXCEPT !.usernameStatus = "checking", !.error = "",
                                     !.checks = @ \cup {signup.username}]
    /\ UNCHANGED notSignup

\* GET /auth/check-username/:username answers, or fails
CheckUsernameAnswers(name, failed) ==
    /\ ~signup.left
    /\ name \in signup.checks
    /\ signup' = IF failed
                 THEN [signup EXCEPT !.checks = @ \ {name},
                                     !.usernameStatus = "unchecked",
                                     !.error = "Error checking username"]
                 ELSE IF name \notin RegisteredUsers
                 THEN [signup EXCEPT !.checks = @ \ {name},
                                     !.usernameStatus = "available",
                                     !.reported = name]
                 ELSE [signup EXCEPT !.checks = @ \ {name},
                                     !.usernameStatus = "taken"]
    /\ UNCHANGED notSignup

\* the Register button is enabled when not loading and the status is available
HandleSubmit(email, passwordLength) ==
    /\ ~signup.left /\ ~signup.loading
    /\ signup.usernameStatus = "available"
    /\ signup' = IF FieldsComplaint(email, passwordLength) # ""
                 THEN [signup EXCEPT !.error = FieldsComplaint(email, passwordLength)]
                 ELSE [signup EXCEPT !.error = "", !.loading = TRUE,
                                     !.sent = signup.username]
    /\ UNCHANGED notSignup

\* signup(username, email, password) settles: navigate('/collections'), or the
\* error is shown
SignupAnswers(ok) ==
    /\ ~signup.left /\ signup.loading
    /\ signup' = IF ok THEN [signup EXCEPT !.loading = FALSE, !.left = TRUE]
                 ELSE [signup EXCEPT !.loading = FALSE, !.error = "signup failed"]
    /\ UNCHANGED notSignup

\* ---- the Collections page and the useImages hook
Filters == {"all", "uploads", "liked"}

\* what the server holds for the signed-in user while the coll is used: image
\* 1 is their upload, image 2 an image they like; one image to a coll
ShownImage(id, isLiked, likesCount) ==
    [id |-> id, isLiked |-> isLiked, likesCount |-> likesCount]

Catalogue(filter) ==
    IF filter = "all" THEN <<ShownImage(2, TRUE, 1), ShownImage(1, FALSE, 0)>>
    ELSE IF filter = "uploads" THEN <<ShownImage(1, FALSE, 0)>>
    ELSE <<ShownImage(2, TRUE, 1)>>

\* the body of GET /images/{collection,user,liked}?coll=..&limit=..
FetchResponse(filter, pageNumber) ==
    [filter |-> filter,
     images |-> IF pageNumber <= Len(Catalogue(filter))
                THEN <<Catalogue(filter)[pageNumber]>> ELSE <<>>,
     page |-> pageNumber,
     pages |-> Len(Catalogue(filter))]

NoCall == [op |-> "none", imageId |-> 0, outcome |-> "none"]

\* useState of the hook and of the coll; the effect of the mount has called
\* loadCollection()
InitialPage ==
    [images |-> <<>>, shown |-> "none", loading |-> TRUE, error |-> "",
     currentPage |-> 1, totalPages |-> 0, filterType |-> "all",
     fetches |-> {[filter |-> "all", page |-> 1]}, calls |-> {}, settled |-> NoCall]

\* fetchUserImages / fetchLikedImages / fetchCollection up to the await
StartFetch(state, filter, pageNumber) ==
    [state EXCEPT !.loading = TRUE, !.error = "",
                  !.fetches = @ \cup {[filter |-> filter, page |-> pageNumber]}]

\* setFilterType(type), then the fetch of coll 1 of that view
HandleFilterChange(type) ==
    /\ Cardinality(coll.fetches) < MaxFetches
    /\ [filter |-> type, page |-> 1] \notin coll.fetches
    /\ coll' = StartFetch([coll EXCEPT !.filterType = type], type, 1)
    /\ UNCHANGED notPage

\* the Load More button: shown when currentPage < totalPages and not loading
HandleLoadMore ==
    /\ coll.currentPage < coll.totalPages /\ ~coll.loading
    /\ Cardinality(coll.fetches) < MaxFetches
    /\ coll' = StartFetch(coll, coll.filterType, coll.currentPage + 1)
    /\ UNCHANGED notPage

\* a fetch settles: setImages, setCurrentPage, setTotalPages of its response,
\* or setError; finally setLoading(false)
FetchAnswers(fetch, failed) ==
    /\ fetch \in coll.fetches
    /\ coll' = IF failed
               THEN [coll EXCEPT !.fetches = @ \ {fetch}, !.loading = FALSE,
                                 !.error = "Failed to fetch images"]
               ELSE LET response == FetchResponse(fetch.filter, fetch.page) IN
                    [coll EXCEPT !.fetches = @ \ {fetch}, !.loading = FALSE,
                                 !.images = response.images, !.shown = response.filter,
                                 !.currentPage = response.page,
                                 !.totalPages = response.pages]
    /\ UNCHANGED notPage

\* toggleLike(imageId) / deleteImage(imageId) up to the await
StartCall(op, imageId) ==
    /\ Cardinality(coll.calls) < MaxCalls
    /\ [op |-> op, imageId |-> imageId] \notin coll.calls
    /\ coll' = [coll EXCEPT !.calls = @ \cup {[op |-> op, imageId |-> imageId]},
                            !.settled = NoCall]
    /\ UNCHANGED notPage

\* prevImages.map(img => img._id === imageId ? {...img, isLiked, likesCount} : img)
WithToggled(imgs, imageId, isLiked, likesCount) ==
    [k \in 1..Len(imgs) |->
        IF imgs[k].id = imageId THEN ShownImage(imageId, isLiked, likesCount)
        ELSE imgs[k]]

\* prevImages.filter(img => img._id !== imageId)
Without(imgs, imageId) == SelectSeq(imgs, LAMBDA img : img.id # imageId)

\* the response of a successful toggle or delete is applied to the list
CallSucceeds(call, isLiked, likesCount) ==
    /\ call \in coll.calls
    /\ coll' = [coll EXCEPT
                   !.calls = @ \ {call},
                   !.images = IF call.op = "toggleLike"
                              THEN WithToggled(@, call.imageId, isLiked, likesCount)
                              ELSE Without(@, call.imageId),
                   !.settled = [op |-> call.op, imageId |-> call.imageId,
                                outcome |-> "returned"]]
    /\ UNCHANGED notPage

\* a list updated before the request and not put back when it fails
CallFailsAfterOptimisticUpdate(call) ==
    /\ call \in coll.calls
    /\ coll' = [coll EXCEPT
                   !.calls = @ \ {call},
                   !.images = Without(@, call.imageId),
                   !.error = "Failed to delete image",
                   !.settled = [op |-> call.op, imageId |-> call.imageId,
                                outcome |-> "rethrown"]]
    /\ UNCHANGED notPage

\* the request fails: the hook's catch sets its message and rethrows, the
\* coll's catch sets its own
CallFails(call) ==
    /\ call \in coll.calls
    /\ coll' = [coll EXCEPT
                   !.calls = @ \ {call},
                   !.error = IF call.op = "toggleLike"
                             THEN "Failed to update like status"
                             ELSE "Failed to delete image",
                   !.settled = [op |-> call.op, imageId |-> call.imageId,
                                outcome |-> "rethrown"]]
    /\ UNCHANGED notPage

\* ---- the upload modal
\* the files the user can pick; 0 stands for null
PickedFiles == 1..MaxPicked
NoFile == 0

\* what the description field can hold: empty, typed by the user, or the
\* caption generated for a file
Typed == "typed"
Caption(file) == IF file = 1 THEN "caption of file 1" ELSE "caption of another file"

\* useState of the modal and of useImageUpload; the modal is rendered closed
\* and stays mounted while the page is
InitialModal ==
    [isOpen |-> FALSE, selectedFile |-> NoFile, description |-> "",
     isPublic |-> FALSE, generatingDescription |-> FALSE, uploading |-> FALSE,
     uploadError |-> "", describing |-> {}, closedBy |-> "none"]

\* setIsUploadModalOpen(true)
OpenModal ==
    /\ ~modal.isOpen
    /\ modal' = [modal EXCEPT !.isOpen = TRUE, !.closedBy = "none"]
    /\ UNCHANGED notModal

\* handleFileSelect: the type and size tests, then setSelectedFile
HandleFileSelect(file, acceptable) ==
    /\ modal.isOpen /\ ~modal.uploading
    /\ modal' = IF acceptable
                THEN [modal EXCEPT !.uploadError = "", !.selectedFile = file]
                ELSE [modal EXCEPT !.uploadError = "Please select a valid image file"]
    /\ UNCHANGED notModal

\* the textarea and the checkbox
SetDescription ==
    /\ modal.isOpen /\ ~modal.uploading /\ ~modal.generatingDescription
    /\ modal.description # Typed
    /\ modal' = [modal EXCEPT !.description = Typed]
    /\ UNCHANGED notModal

SetIsPublic ==
    /\ modal.isOpen /\ ~modal.uploading
    /\ modal' = [modal EXCEPT !.isPublic = ~@]
    /\ UNCHANGED notModal

\* handleGenerateDescription up to its await
HandleGenerateDescription ==
    /\ modal.isOpen /\ ~modal.uploading /\ ~modal.generatingDescription
    /\ modal' = IF modal.selectedFile = NoFile
                THEN [modal EXCEPT !.uploadError =
                         "Please select an image before generating a description."]
                ELSE [modal EXCEPT !.generatingDescription = TRUE, !.uploadError = "",
                                   !.describing = @ \cup {modal.selectedFile}]
    /\ UNCHANGED notModal

\* generateImageDescription(selectedFile) settles: setDescription(aiDescription)
\* or setUploadError; finally setGeneratingDescription(false)
DescriptionArrives(file, failed) ==
    /\ file \in modal.describing
    /\ modal' = IF failed
                THEN [modal EXCEPT !.describing = @ \ {file},
                                   !.generatingDescription = FALSE,
                                   !.uploadError = "Failed to generate description"]
                ELSE [modal EXCEPT !.describing = @ \ {file},
                                   !.generatingDescription = FALSE,
                                   !.description = Caption(file)]
    /\ UNCHANGED notModal

\* handleUpload up to its await: the Upload button is enabled when a file is
\* selected and no upload is running
HandleUpload ==
    /\ modal.isOpen /\ ~modal.uploading
    /\ modal.selectedFile # NoFile
    /\ modal' = [modal EXCEPT !.uploading = TRUE, !.uploadError = ""]
    /\ UNCHANGED notModal

\* setSelectedFile(null); setPreview(null); setDescription(''); setIsPublic(false)
ResetForm(state) ==
    [state EXCEPT !.selectedFile = NoFile, !.description = "", !.isPublic = FALSE]

\* uploadImage settles: on a result resetForm(), onUploadSuccess(), onClose()
UploadArrives(ok) ==
    /\ modal.uploading
    /\ modal' = IF ok
                THEN [ResetForm(modal) EXCEPT !.uploading = FALSE, !.isOpen = FALSE,
                                              !.closedBy = "upload"]
                ELSE [modal EXCEPT !.uploading = FALSE, !.uploadError = "Upload failed"]
    /\ UNCHANGED notModal

\* handleClose: if (!uploading) { resetForm(); onClose() }
HandleClose ==
    /\ modal.isOpen /\ ~modal.uploading
    /\ modal' = [ResetForm(modal) EXCEPT !.isOpen = FALSE, !.closedBy = "close"]
    /\ UNCHANGED notModal

\* ---- the API layer of the client
\* the tokens the server issues, each one new; 0 stands for no item in
\* local storage
Tokens == 1..MaxTokens
Flights == 1..MaxFlights
Statuses == {200, 401, 500}

NoResponse == [status |-> 0, auth |-> 0, outcome |-> "none"]

InitialApi ==
    [token |-> 0, user |-> 0, issued |-> 0, location |-> "/",
     flights |-> {}, rejected |-> {}, last |-> NoResponse]

\* a login or signup succeeds: the token and the user are put in local storage
StoreToken ==
    /\ api.issued < MaxTokens
    /\ api' = [api EXCEPT !.issued = @ + 1, !.token = api.issued + 1,
                          !.user = api.issued + 1]
    /\ UNCHANGED notApi

\* the request interceptor: Authorization is set from the token in local
\* storage, when there is one
Intercepted(n) == [n |-> n, auth |-> api.token]

SendRequest(n) ==
    /\ \A f \in api.flights : f.n # n
    /\ api' = [api EXCEPT !.flights = @ \cup {Intercepted(n)}]
    /\ UNCHANGED notApi

\* a response interceptor that rejects and leaves local storage alone
ResponseArrivesKeepingToken(flight, status) ==
    /\ flight \in api.flights
    /\ api' = [api EXCEPT
                  !.flights = @ \ {flight},
                  !.rejected = IF status = 401 /\ flight.auth # 0
                               THEN @ \cup {flight.auth} ELSE @,
                  !.last = [status |-> status, auth |-> flight.auth,
                            outcome |-> IF status = 200 THEN "resolved" ELSE "rejected"]]
    /\ UNCHANGED notApi

\* the response interceptor: a response passes; an error with status 401
\* removes token and user and sends the window to /login; every error is
\* rejected to the caller
ResponseArrives(flight, status) ==
    /\ flight \in api.flights
    /\ api' = [api EXCEPT
                  !.flights = @ \ {flight},
                  !.token = IF status = 401 THEN 0 ELSE @,
                  !.user = IF status = 401 THEN 0 ELSE @,
                  !.location = IF status = 401 THEN "/login" ELSE @,
                  !.rejected = IF status = 401 /\ flight.auth # 0
                               THEN @ \cup {flight.auth} ELSE @,
                  !.last = [status |-> status, auth |-> flight.auth,
                            outcome |-> IF status = 200 THEN "resolved" ELSE "rejected"]]
    /\ UNCHANGED notApi

\* ---- the system
\* the Gemini client exists when GEMINI_API_KEY is set
InitialAi(configured) ==
    [client |-> configured, calls |-> [a \in AiReq |-> IdleCall], tmp |-> {}]

InitServer ==
    /\ images = <<>>
    /\ likes = <<>>
    /\ files = {}
    /\ now = 0
    /\ nextId = 0
    /\ nOps = 0
    /\ req = [r \in Req |-> IdleReq]
    /\ run = NoRun
    /\ view = NoView

InitClient ==
    /\ signup = InitialSignup
    /\ coll = InitialPage
    /\ modal = InitialModal
    /\ api = InitialApi

Init == InitServer /\ ai = InitialAi(TRUE) /\ InitClient

\* the server process started with or without the key
InitAi == InitServer /\ ai \in {InitialAi(configured) : configured \in BOOLEAN} /\ InitClient

\* Date.now() moves on
Tick ==
    /\ now < MaxTime
    /\ now' = now + 1
    /\ view' = NoView
    /\ UNCHANGED <<images, likes, files, nextId, nOps, req, run>>
    /\ UNCHANGED client

Start ==
    \/ \E r \in Req, u \in Users, hasFile \in BOOLEAN,
          length \in DescriptionLengths, isPublic \in IsPublicValues :
          UploadStart(r, u, hasFile, ValidationPasses(length, isPublic))
    \/ \E r \in Req, u \in Users, i \in ImageIds : ToggleStart(r, u, i)
    \/ \E r \in Req, u \in Users, i \in ImageIds : DeleteStart(r, u, i)

Step ==
    \/ \E r \in Req : UploadSave(r)
    \/ \E r \in Req : ToggleFindImage(r)
    \/ \E r \in Req : ToggleFindLike(r)
    \/ \E r \in Req : ToggleDeleteLike(r)
    \/ \E r \in Req : ToggleSaveLike(r)
    \/ \E r \in Req : ToggleSaveImage(r)
    \/ \E r \in Req : DeleteFindImage(r)
    \/ \E r \in Req : DeleteLikes(r)
    \/ \E r \in Req : DeleteImage(r)

Read ==
    \/ \E u \in Users, page \in Pages, limit \in Limits : GetCollection(u, page, limit)
    \/ \E u \in Users, page \in Pages, limit \in Limits : GetUploads(u, page, limit)
    \/ \E u \in Users, page \in Pages, limit \in Limits : GetLiked(u, page, limit)
    \/ \E u \in Users : GetStats(u)

Next == Start \/ Step

\* mutating requests arrive at any time: their handlers interleave at the awaits
\* (no step of theirs reads a timestamp, so the clock is left where it is)
Spec == Init /\ [][Next]_vars

\* sequential operation: a request starts only when no other is in flight
NextSeq == (~Busy /\ Start) \/ Step
SpecSeq == Init /\ [][NextSeq]_vars

\* sequential operation as time passes, a view being read between two requests
NextView == NextSeq \/ (~Busy /\ (Tick \/ Read))
SpecView == Init /\ [][NextView]_vars

\* caption requests: the handler runs whenever it can; Gemini answers when,
\* and if, it does
NextAi ==
    \/ \E a \in AiReq, hasFile \in BOOLEAN : DescribeStart(a, hasFile)
    \/ \E a \in AiReq : DescribeCall(a)
    \/ \E a \in AiReq, result \in GeminiResults : GeminiAnswers(a, result)
SpecAi == InitAi /\ [][NextAi]_vars
SpecAiFair == SpecAi /\ \A a \in AiReq : WF_vars(DescribeCall(a))

\* the Signup page: the user types, checks and submits while answers arrive
NextSignup ==
    \/ \E value \in Usernames : HandleUsernameChange(value)
    \/ CheckUsername
    \/ \E name \in Usernames, failed \in BOOLEAN : CheckUsernameAnswers(name, failed)
    \/ \E email \in Emails, passwordLength \in PasswordLengths :
          HandleSubmit(email, passwordLength)
    \/ \E ok \in BOOLEAN : SignupAnswers(ok)
SpecSignup == Init /\ [][NextSignup]_vars

\* the Collections page: the user switches views, loads more, likes and
\* deletes while the responses arrive in any order
NextPage ==
    \/ \E type \in Filters : HandleFilterChange(type)
    \/ HandleLoadMore
    \/ \E filter \in Filters, pageNumber \in Pages, failed \in BOOLEAN :
          FetchAnswers([filter |-> filter, page |-> pageNumber], failed)
    \/ \E op \in {"toggleLike", "deleteImage"}, i \in ImageIds : StartCall(op, i)
    \/ \E op \in {"toggleLike", "deleteImage"}, i \in ImageIds,
          isLiked \in BOOLEAN, likesCount \in 0..MaxLikes :
          CallSucceeds([op |-> op, imageId |-> i], isLiked, likesCount)
    \/ \E op \in {"toggleLike", "deleteImage"}, i \in ImageIds :
          CallFails([op |-> op, imageId |-> i])
SpecPage == Init /\ [][NextPage]_vars

\* the upload modal: the user fills the form, asks for a caption, uploads and
\* closes while the requests settle in any order
NextModal ==
    \/ OpenModal
    \/ \E file \in PickedFiles, acceptable \in BOOLEAN : HandleFileSelect(file, acceptable)
    \/ SetDescription
    \/ SetIsPublic
    \/ HandleGenerateDescription
    \/ \E file \in PickedFiles, failed \in BOOLEAN : DescriptionArrives(file, failed)
    \/ HandleUpload
    \/ \E ok \in BOOLEAN : UploadArrives(ok)
    \/ HandleClose
SpecModal == Init /\ [][NextModal]_vars

\* the API layer: requests are sent and answered in any order while the user
\* signs in again
NextApi ==
    \/ StoreToken
    \/ \E n \in Flights : SendRequest(n)
    \/ \E n \in Flights, t \in 0..MaxTokens, status \in Statuses :
          ResponseArrives([n |-> n, auth |-> t], status)
SpecApi == Init /\ [][NextApi]_vars

\* a storage call of a handler throws
Fail ==
    \/ \E r \in Req : UploadSaveFails(r)
    \/ \E r \in Req : ToggleLikeWriteFails(r)
    \/ \E r \in Req : ToggleSaveImageFails(r)

\* sequential operation over a store whose writes may fail
NextFail == NextSeq \/ Fail
SpecFail == Init /\ [][NextFail]_vars

\* ---- the properties
Consistent ==
    \A k \in 1..Len(images) : images[k].likesCount = LikeCount(images[k].id)

DoneToggle(r) == req[r].kind = "toggle" /\ req[r].pc = "done"

StoredLikesCount(i) == FindImageById(i).likesCount

\* C1: under sequential operation, between requests, every existing image's
\* likesCount equals the number of Like records that reference it
C1_CounterMatchesLikes == ~Busy => Consistent

C1_Witness ==
    /\ ~Busy
    /\ Len(images) < nextId
    /\ \E k \in 1..Len(images) : images[k].likesCount >= 1
    /\ \E r \in Req : req[r].kind = "delete" /\ req[r].pc = "done" /\ req[r].status = 200

\* C2: when toggles of different requests interleave at their storage steps,
\* then once all have completed every image's likesCount equals the number of
\* Like records that reference it
C2_NoLostUpdate ==
    (\A r \in Req : ~InFlight(r)) =>
        \A i \in ImageIds :
            FindImageById(i) # NoDoc => StoredLikesCount(i) = LikeCount(i)

\* C3: the stored likesCount of every image, and every likesCount a toggle
\* returns, is never negative, whatever the interleaving
C3_NeverNegative ==
    /\ \A k \in 1..Len(images) : images[k].likesCount >= 0
    /\ \A r \in Req : DoneToggle(r) /\ req[r].status = 200 => req[r].lc >= 0

\* an unlike that loaded a counter already at 0 and answered
C3_Witness ==
    \E r \in Req :
        /\ DoneToggle(r) /\ req[r].status = 200 /\ ~req[r].isLiked
        /\ req[r].lc0 = 0 /\ req[r].lc = 0
        /\ StoredLikesCount(req[r].imageId) = 0

\* C4: there is at most one Like record per (user, image) pair
C4_OneLikePerPair ==
    \A u \in Users, i \in ImageIds : PairCount(u, i) <= 1

\* two toggles of one user on one image both found no Like: the second save
\* was refused
C4_Witness ==
    \E r \in Req :
        /\ DoneToggle(r) /\ req[r].status = 500
        /\ FindImageById(req[r].imageId) # NoDoc
        /\ PairCount(req[r].user, req[r].imageId) = 1

\* C5: after an even number of back-to-back sequential toggles of (U, I) that
\* started from "not liked", the last response has isLiked = false, U has no
\* Like on I and I's likesCount is what it was before the first toggle
C5_EvenTogglesRestore ==
    (run.user # 0 /\ ~run.odd /\ ~Busy) =>
        /\ FindImageById(run.imageId) # NoDoc
        /\ FindLike(run.user, run.imageId) = NoDoc
        /\ StoredLikesCount(run.imageId) = run.base
        /\ run.any => ~run.last

C5_Witness ==
    /\ run.user # 0 /\ ~run.odd /\ run.any /\ ~Busy
    /\ run.base = 1

\* C6: a toggle of (U, I) that runs alone, I existing and not liked by U,
\* creates exactly one Like (U, I), stores likesCount = old + 1 and returns
\* isLiked = true with that likesCount
C6_LikeFromNotLiked ==
    \A r \in Req :
        (DoneToggle(r) /\ req[r].solo /\ req[r].pre.exists /\ ~req[r].pre.liked) =>
            /\ req[r].status = 200
            /\ req[r].isLiked
            /\ PairCount(req[r].user, req[r].imageId) = 1
            /\ StoredLikesCount(req[r].imageId) = req[r].pre.lc + 1
            /\ req[r].lc = req[r].pre.lc + 1

C6_Witness ==
    \E r \in Req :
        /\ DoneToggle(r) /\ req[r].solo /\ req[r].pre.exists /\ ~req[r].pre.liked
        /\ req[r].pre.lc = 1

\* C7: a toggle of (U, I) that runs alone, I existing and liked by U, deletes
\* the Like, stores likesCount = max(0, old - 1) and returns isLiked = false
\* with that likesCount: 0, not -1, when the stored counter was already 0
C7_UnlikeFromLiked ==
    \A r \in Req :
        (DoneToggle(r) /\ req[r].solo /\ req[r].pre.exists /\ req[r].pre.liked) =>
            /\ req[r].status = 200
            /\ ~req[r].isLiked
            /\ PairCount(req[r].user, req[r].imageId) = 0
            /\ StoredLikesCount(req[r].imageId) = Max(0, req[r].pre.lc - 1)
            /\ req[r].lc = Max(0, req[r].pre.lc - 1)

\* the stored counter was already 0 while the Like existed
C7_Witness ==
    \E r \in Req :
        /\ DoneToggle(r) /\ req[r].solo /\ req[r].pre.exists /\ req[r].pre.liked
        /\ req[r].pre.lc = 0
        /\ StoredLikesCount(req[r].imageId) = 0

NoDuplicateIds(s) ==
    \A j, k \in 1..Len(s) : s[j].id = s[k].id => j = k

C9_NoDuplicates ==
    /\ \A u \in Users : NoDuplicateIds(SortedCollection(u))
    /\ view.kind = "collection" => NoDuplicateIds(view.images)

C9_Witness ==
    /\ view.kind = "collection"
    /\ Len(view.images) = 2
    /\ \E k \in 1..Len(view.images) :
          view.images[k].uploadedBy = view.user /\ view.images[k].isLiked

\* C10: in the `all` view the total is the size of (images the requester
\* uploaded) union (existing images the requester liked), and the page holds
\* only the items at places (page-1)*limit .. min(page*limit, total)-1 of the
\* list: at most limit of them, none beyond total
UnionIds(u) ==
    {images[k].id : k \in {j \in 1..Len(images) : images[j].uploadedBy = u}}
    \cup {images[k].id : k \in {j \in 1..Len(images) :
                \E l \in 1..Len(likes) :
                    likes[l].userId = u /\ likes[l].imageId = images[j].id}}

C10_TotalAndSlice ==
    view.kind = "collection" =>
        LET total == Cardinality(UnionIds(view.user))
            first == (view.page - 1) * view.limit
        IN  /\ view.total = total
            /\ Len(view.images) <= view.limit
            /\ \A k \in 1..Len(view.images) :
                  /\ first + k <= Min(view.page * view.limit, total)
                  /\ view.images[k].id = SortedCollection(view.user)[first + k].id

C10_Witness ==
    /\ view.kind = "collection"
    /\ view.page = 2 /\ view.limit = 1 /\ view.total = 2
    /\ Len(view.images) = 1
    /\ view.images[1].uploadedBy = view.user /\ view.images[1].isLiked

\* C11: for one snapshot the pages of the `all` view are consecutive slices of
\* one list, the deduplicated union sorted by the images' createdAt, newest
\* first: pages 1..pages put end to end hold every image of the union exactly
\* once, in non-increasing createdAt
RECURSIVE PagesUpTo(_, _, _)
PagesUpTo(u, n, limit) ==
    IF n = 0 THEN <<>>
    ELSE PagesUpTo(u, n - 1, limit) \o CollectionResponse(u, n, limit).images

NonIncreasingCreatedAt(s) ==
    \A k \in 1..(Len(s) - 1) : s[k].createdAt >= s[k + 1].createdAt

C11_PagesAreSlices ==
    view.kind = "collection" =>
        LET all == PagesUpTo(view.user, view.pages, view.limit)
            first == (view.page - 1) * view.limit
        IN  /\ {all[k].id : k \in 1..Len(all)} = UnionIds(view.user)
            /\ Len(all) = Cardinality(UnionIds(view.user))
            /\ NonIncreasingCreatedAt(all)
            /\ \A k \in 1..Len(view.images) : view.images[k] = all[first + k]

\* two pages of one image each, the older image uploaded first
C11_Witness ==
    /\ view.kind = "collection"
    /\ view.limit = 1 /\ view.pages = 2 /\ view.page = 2
    /\ Len(view.images) = 1
    /\ images[1].id = view.images[1].id
    /\ images[1].createdAt < images[2].createdAt

\* C12: in the `all` view an item's isLiked is true exactly when a Like of the
\* requester on that image exists; an image the requester uploaded and did not
\* like has isLiked = false
C12_IsLikedInAll ==
    view.kind = "collection" =>
        \A k \in 1..Len(view.images) :
            view.images[k].isLiked <=> (FindLike(view.user, view.images[k].id) # NoDoc)

\* the page holds an upload the requester did not like and an image they liked
C12_Witness ==
    /\ view.kind = "collection"
    /\ \E k \in 1..Len(view.images) :
          view.images[k].uploadedBy = view.user /\ ~view.images[k].isLiked
    /\ \E k \in 1..Len(view.images) : view.images[k].isLiked

\* C13: the `uploads` view holds only images the requester uploaded, newest
\* first, each with isLiked true exactly when a Like of the requester on that
\* image exists
C13_UploadsView ==
    view.kind = "uploads" =>
        /\ \A k \in 1..Len(view.images) : view.images[k].uploadedBy = view.user
        /\ NonIncreasingCreatedAt(view.images)
        /\ \A k \in 1..Len(view.images) :
              view.images[k].isLiked <=> (FindLike(view.user, view.images[k].id) # NoDoc)

\* C14: the `liked` view holds the images of the requester's Like records that
\* fall in the page window, ordered by the Like's createdAt, newest first, not
\* by the image's; every item has isLiked = true and no image the requester
\* does not like appears
LikedAt(u, i) == FindLike(u, i).createdAt

NewerLikes(u, t) ==
    Cardinality({l \in 1..Len(likes) : likes[l].userId = u /\ likes[l].createdAt > t})

NotOlderLikes(u, t) ==
    Cardinality({l \in 1..Len(likes) : likes[l].userId = u /\ likes[l].createdAt >= t})

C14_LikedView ==
    view.kind = "liked" =>
        LET u == view.user
            first == (view.page - 1) * view.limit
            last == view.page * view.limit
            shown == {view.images[k].id : k \in 1..Len(view.images)}
        IN  /\ \A k \in 1..Len(view.images) :
                  /\ view.images[k].isLiked
                  /\ FindLike(u, view.images[k].id) # NoDoc
                  /\ NewerLikes(u, LikedAt(u, view.images[k].id)) < last
                  /\ NotOlderLikes(u, LikedAt(u, view.images[k].id)) > first
            /\ \A k \in 1..(Len(view.images) - 1) :
                  LikedAt(u, view.images[k].id) >= LikedAt(u, view.images[k + 1].id)
            /\ \A l \in 1..Len(likes) :
                  (/\ likes[l].userId = u
                   /\ FindImageById(likes[l].imageId) # NoDoc
                   /\ NewerLikes(u, likes[l].createdAt) >= first
                   /\ NotOlderLikes(u, likes[l].createdAt) <= last)
                      => likes[l].imageId \in shown
            /\ view.total = NotOlderLikes(u, 0)

\* the older image was liked last and comes first
C14_Witness ==
    /\ view.kind = "liked"
    /\ Len(view.images) = 2
    /\ view.images[1].createdAt < view.images[2].createdAt
    /\ LikedAt(view.user, view.images[1].id) > LikedAt(view.user, view.images[2].id)

\* C15: in each of the three views, for limit >= 1, pages is total / limit
\* rounded up; a page beyond pages is answered with success, no images, the
\* same total and pages, and the page number that was asked for
ViewTotal(kind, u) ==
    IF kind = "collection" THEN Cardinality(UnionIds(u))
    ELSE IF kind = "uploads"
    THEN Cardinality({k \in 1..Len(images) : images[k].uploadedBy = u})
    ELSE Cardinality({l \in 1..Len(likes) : likes[l].userId = u})

FirstPage(kind, u, limit) ==
    IF kind = "collection" THEN CollectionResponse(u, 1, limit)
    ELSE IF kind = "uploads" THEN UploadsResponse(u, 1, limit)
    ELSE LikedResponse(u, 1, limit)

C15_PagesRoundedUp ==
    view.kind \in {"collection", "uploads", "liked"} =>
        /\ view.success
        /\ view.total = ViewTotal(view.kind, view.user)
        /\ view.pages * view.limit >= view.total
        /\ (view.pages - 1) * view.limit < view.total
        /\ view.page > view.pages =>
              /\ view.images = <<>>
              /\ view.total = FirstPage(view.kind, view.user, view.limit).total
              /\ view.pages = FirstPage(view.kind, view.user, view.limit).pages
              /\ view.page \in Pages

\* page 2 asked of a `liked` view whose two items fill one page
C15_Witness ==
    /\ view.kind = "liked"
    /\ view.limit = 2 /\ view.total = 2 /\ view.pages = 1 /\ view.page = 2
    /\ view.images = <<>>

\* C16: once a delete of image I by its uploader has answered 200, I does not
\* exist, no Like references I, and the `liked` and `all` views of every user
\* omit I
DoneDelete(r) == req[r].kind = "delete" /\ req[r].pc = "done" /\ req[r].status = 200

C16_DeletedStaysGone ==
    \A r \in Req :
        DoneDelete(r) =>
            /\ FindImageById(req[r].imageId) = NoDoc
            /\ LikeCount(req[r].imageId) = 0
            /\ \A u \in Users :
                  /\ req[r].imageId \notin Shown(LikedResponse(u, 1, MaxImages))
                  /\ req[r].imageId \notin Shown(CollectionResponse(u, 1, MaxImages))

\* C17: a delete asked by a user who is not the uploader answers 403 and
\* leaves the Image record with its likesCount, every Like record and the
\* stored file as they were
C17_DeleteForbidden ==
    [][\A r \in Req :
          (/\ req[r].kind = "delete" /\ req[r].pc = "findImage"
           /\ FindImageById(req[r].imageId) # NoDoc
           /\ FindImageById(req[r].imageId).uploadedBy # req[r].user
           /\ req'[r].pc # req[r].pc) =>
              /\ req'[r].pc = "done"
              /\ req'[r].status = 403
              /\ images' = images
              /\ likes' = likes
              /\ files' = files]_vars

\* the refused delete was of an image that is liked
C17_Witness ==
    \E r \in Req :
        /\ req[r].kind = "delete" /\ req[r].pc = "done" /\ req[r].status = 403
        /\ FindImageById(req[r].imageId) # NoDoc
        /\ StoredLikesCount(req[r].imageId) >= 1
        /\ LikeCount(req[r].imageId) >= 1
        /\ req[r].imageId \in files

\* C18: the stats of user A give the sum of likesCount over exactly the images
\* A uploaded, never negative; an upload, and a toggle on another user's
\* image, leave it as it was; it rises by 1 when a user likes an image of A
\* and falls by 1 when that user unlikes it
RECURSIVE SumOfUploads(_, _)
SumOfUploads(u, n) ==
    IF n = 0 THEN 0
    ELSE SumOfUploads(u, n - 1)
         + (IF FindImageById(n) # NoDoc /\ FindImageById(n).uploadedBy = u
            THEN StoredLikesCount(n) ELSE 0)

StatsOf(u) == StatsResponse(u).totalLikes

C18_StatsTotal ==
    [][/\ \A a \in Users :
             (view'.kind = "stats" /\ view'.user = a) =>
                 /\ view'.totalLikes = SumOfUploads(a, MaxImages)'
                 /\ view'.totalLikes >= 0
       /\ \A r \in Req :
             (req[r].kind = "upload" /\ req'[r].kind = "upload") =>
                 \A u \in Users : StatsOf(u)' = StatsOf(u)
       /\ \A r \in Req :
             (/\ req[r].kind = "toggle" /\ req[r].pc = "saveImage"
              /\ req'[r].pc = "done" /\ req'[r].status = 200) =>
                 \A u \in Users :
                     StatsOf(u)' = StatsOf(u)
                         + (IF FindImageById(req[r].imageId).uploadedBy # u THEN 0
                            ELSE IF req'[r].isLiked THEN 1 ELSE -1)]_vars

\* A's stats read after B liked A's image, while A likes an image of B
C18_Witness ==
    /\ view.kind = "stats" /\ view.totalLikes = 1
    /\ \E r \in Req :
          /\ DoneToggle(r) /\ req[r].status = 200 /\ req[r].isLiked
          /\ req[r].user # view.user
          /\ FindImageById(req[r].imageId).uploadedBy = view.user
    /\ \E k \in 1..Len(images) :
          /\ images[k].uploadedBy # view.user /\ images[k].likesCount = 1
          /\ FindLike(view.user, images[k].id) # NoDoc

\* C19: the three views and the stats only read: answering one leaves every
\* Image record, likesCount included, and every Like record as they were
C19_ReadsOnlyRead ==
    [][view' # NoView => images' = images /\ likes' = likes /\ files' = files]_vars

\* a `liked` page answered while images and Likes are stored
C19_Witness ==
    /\ view.kind = "liked" /\ Len(view.images) >= 1
    /\ Len(images) = 2 /\ Len(likes) >= 2

\* C20: in every reachable state, between the steps of a delete and when a
\* delete interleaves with a toggle on the same image included, no Like
\* references an image that does not exist
C20_NoOrphanLike ==
    \A l \in 1..Len(likes) : FindImageById(likes[l].imageId) # NoDoc

\* C21: the Like write and the counter write of one toggle are atomic under
\* failure: a toggle whose counter save fails answers an error and leaves the
\* stores as they were, so no completed toggle, successful or failed, has
\* changed the Like and not the likesCount
LikeChanged(r) ==
    (FindLike(req[r].user, req[r].imageId) # NoDoc) # req[r].pre.liked

CounterChanged(r) == StoredLikesCount(req[r].imageId) # req[r].pre.lc

C21_ToggleAtomic ==
    \A r \in Req :
        (DoneToggle(r) /\ req[r].solo /\ req[r].pre.exists) =>
            /\ LikeChanged(r) => CounterChanged(r)
            /\ req[r].status = 500 => ~LikeChanged(r) /\ ~CounterChanged(r)

\* C22: within one toggle the write to the Like store has completed before
\* the write of likesCount is issued: the counter is never written first, and
\* never written when the Like write did not succeed
C22_LikeBeforeCounter ==
    [][/\ \A i \in ImageIds :
             (/\ FindImageById(i) # NoDoc /\ FindImageById(i)' # NoDoc
              /\ StoredLikesCount(i)' # StoredLikesCount(i)) =>
                 \E r \in Req :
                     /\ req[r].kind = "toggle" /\ req[r].imageId = i
                     /\ req[r].pc = "saveImage"
                     /\ likes' = likes
                     /\ (FindLike(req[r].user, i) # NoDoc) # req[r].pre.liked
       /\ \A r \in Req :
             (req[r].kind = "toggle" /\ likes' # likes) =>
                 /\ req[r].pc \in {"deleteLike", "saveLike"}
                 /\ images' = images
                 /\ StoredLikesCount(req[r].imageId) = req[r].pre.lc]_vars

\* an unlike that lowered the counter from 1 after the Like was deleted
C22_Witness ==
    \E r \in Req :
        /\ DoneToggle(r) /\ req[r].status = 200 /\ ~req[r].isLiked
        /\ req[r].pre.liked /\ req[r].pre.lc = 1
        /\ StoredLikesCount(req[r].imageId) = 0
        /\ FindLike(req[r].user, req[r].imageId) = NoDoc

\* C23: a new image starts with likesCount = 0, and the likesCount of an
\* existing image is changed only by a toggle on that image: upload, delete
\* of another image, toggles on other images, the views and the stats leave
\* it as it was
C23_CounterFrame ==
    [][\A i \in ImageIds :
          /\ (FindImageById(i) = NoDoc /\ FindImageById(i)' # NoDoc) =>
                 StoredLikesCount(i)' = 0
          /\ (/\ FindImageById(i) # NoDoc /\ FindImageById(i)' # NoDoc
              /\ StoredLikesCount(i)' # StoredLikesCount(i)) =>
                 \E r \in Req :
                     /\ req[r].kind = "toggle" /\ req[r].imageId = i
                     /\ req[r].pc = "saveImage"]_vars

\* a toggle on the second image has answered while the first keeps its counter
C23_Witness ==
    /\ Len(images) = 2
    /\ images[1].likesCount = 1 /\ images[2].likesCount = 0
    /\ \E r \in Req :
          /\ DoneToggle(r) /\ req[r].status = 200 /\ ~req[r].isLiked
          /\ req[r].imageId = images[2].id

\* C24: an upload that fails validation or has no file creates no Image
\* record and the file written for it is removed; an upload whose Image save
\* fails leaves no Image record and removes the file
C24_FailedUploadLeavesNothing ==
    [][\A r \in Req :
          (/\ req'[r].kind = "upload" /\ req'[r].pc = "done"
           /\ req'[r].status \in {400, 500}
           /\ (nOps' # nOps \/ req[r].pc = "saveImage")) =>
              /\ images' = images
              /\ req[r].pc = "saveImage" => req[r].imageId \notin files'
              /\ \A f \in files' : FindImageById(f)' # NoDoc]_vars

\* an upload whose save failed, after one that was stored
C24_Witness ==
    /\ \E r \in Req :
          req[r].kind = "upload" /\ req[r].pc = "done" /\ req[r].status = 500
    /\ Len(images) = 1
    /\ files = {images[1].id}
    /\ nextId = 2

\* C25: every describe-image request eventually answers, with success or
\* failure, also when Gemini never answers
C25_DescribeCompletes ==
    \A a \in AiReq :
        (ai.calls[a].pc \in {"entered", "generating"}) ~> (ai.calls[a].pc = "done")

\* C26: on the Signup page, whenever usernameStatus is 'available', and so
\* whenever a signup is sent, the username in the field is the one the server
\* reported as available, also when the user edits the username while a check
\* is in flight
C26_AvailableIsVerified ==
    /\ signup.usernameStatus = "available" => signup.username = signup.reported
    /\ signup.loading => signup.sent = signup.reported

\* C27: in the useImages hook a toggleLike or deleteImage whose request fails
\* leaves the images list (membership, isLiked and likesCount of every image)
\* as it was, sets the error message and rethrows; the list is changed only
\* by a successful response
C27_FailedCallKeepsList ==
    [][/\ (coll'.settled # coll.settled /\ coll'.settled.outcome = "rethrown") =>
             /\ coll'.images = coll.images
             /\ coll'.error # ""
       /\ coll'.images # coll.images =>
             \/ coll'.settled # coll.settled /\ coll'.settled.outcome = "returned"
             \/ coll'.fetches # coll.fetches /\ coll'.error = coll.error]_vars

\* a delete failed while the list shows the image, liked by an earlier toggle
C27_Witness ==
    /\ coll.settled = [op |-> "deleteImage", imageId |-> 1, outcome |-> "rethrown"]
    /\ coll.error = "Failed to delete image"
    /\ coll.images = <<ShownImage(1, TRUE, 1)>>

\* C28: in the Collections page, once every fetch in flight has completed,
\* the images shown, currentPage and totalPages are those of the fetch for the
\* selected filter, also when the user switched filters while a fetch was in
\* flight and the responses arrived out of order
C28_ShownIsSelected ==
    (coll.fetches = {} /\ coll.error = "") =>
        /\ coll.shown = coll.filterType
        /\ coll.totalPages = FetchResponse(coll.filterType, 1).pages
        /\ coll.currentPage <= Max(1, coll.totalPages)

\* C29: after a successful upload the form of the modal is reset and stays
\* reset until the modal is opened again: selectedFile is null and description
\* is empty, also when a caption request that started before the upload
\* settles after it
C29_FormStaysReset ==
    (~modal.isOpen /\ modal.closedBy = "upload") =>
        /\ modal.selectedFile = NoFile
        /\ modal.description = ""

\* C30: in the API layer, after a response with status 401 the token and the
\* user are gone from local storage and the rejection has reached the caller;
\* no request sent later carries the Authorization header of the rejected
\* session, until a new token is stored
C30_RejectedSessionDropped ==
    [][/\ (api'.flights \subseteq api.flights /\ api'.flights # api.flights
           /\ api'.last.status = 401) =>
             /\ api'.token = 0 /\ api'.user = 0
             /\ api'.last.outcome = "rejected"
       /\ \A f \in api'.flights \ api.flights :
             /\ f.auth \notin api.rejected
             /\ f.auth = api.token]_vars

\* the session of token 1 was rejected; a request now carries the token
\* stored after that
C30_Witness ==
    /\ api.rejected = {1}
    /\ api.last.status = 401 /\ api.last.auth = 1
    /\ api.token = 2
    /\ \E f \in api.flights : f.auth = 2

====
